---- MODULE Spec2Model ----
(***************************************************************************)
(* Model of api/index.py: the rule table DELAY_GROUPS, get_group,          *)
(* combine_with_punctuation and the /pos-tag request handler.              *)
(*                                                                         *)
(* Strings are sequences of one-character strings, so that concatenation,  *)
(* emptiness (Python truthiness of a str) and strip() are computed.        *)
(* A token is a record [text, pos_, ent_type_] as read from a spaCy token. *)
(***************************************************************************)
EXTENDS Integers, Sequences, FiniteSets, TLC

VARIABLES
    DELAY_GROUPS,     \* the module-level rule table (a mutable dict in Python)
    pc,               \* position of the /pos-tag handler
    data,             \* request.get_json()
    text,             \* data['text']
    doc,              \* nlp(text)
    i,                \* number of tokens of doc the loop has consumed
    combined_tokens,  \* locals of combine_with_punctuation
    combined_groups,
    current_token,
    current_group,
    response,         \* what the handler returned
    nlp_calls,        \* number of calls of nlp(text) made for this request
    combine_calls,    \* number of calls of combine_with_punctuation made
    raised,           \* which step raised the exception being handled
    g_token,          \* argument of a direct get_group call
    g_ret,            \* its return value
    inv               \* locals of the concurrent invocations of the merger

vars == <<DELAY_GROUPS, pc, data, text, doc, i, combined_tokens,
          combined_groups, current_token, current_group, response,
          nlp_calls, combine_calls, raised, g_token, g_ret, inv>>

handlerVars == <<pc, data, text, doc, i, combined_tokens, combined_groups,
                 current_token, current_group, response, nlp_calls,
                 combine_calls, raised>>

classifyVars == <<g_token, g_ret>>

----------------------------------------------------------------------------
(* Bounds and input domains *)

MaxLen == 3          \* longest document of the handler specification
MaxConcLen == 2      \* longest document of a concurrent invocation

\* Python None
None == "None"

\* The Universal POS tags spaCy assigns to token.pos_
PosTags == {"ADJ", "ADP", "ADV", "AUX", "CCONJ", "DET", "INTJ", "NOUN", "NUM",
            "PART", "PRON", "PROPN", "PUNCT", "SCONJ", "SYM", "VERB", "X",
            "SPACE"}

\* token.ent_type_ : "" when the token is not part of a named entity
EntTypes == {"", "GPE", "PERSON", "ORG"}

\* token.text values; <<>> is the empty string
Texts == {<<>>, <<"a">>, <<"b">>}

\* Tokens given to a direct get_group call: every tag, every entity type
ClassifyTokens == [text : {<<"a">>}, pos_ : PosTags, ent_type_ : EntTypes]

\* Tokens of the documents given to the merger
DocTags == {"NOUN", "DET", "PUNCT", "SYM", "X"}
DocTokens == [text : Texts, pos_ : DocTags, ent_type_ : {"", "GPE"}]
Docs == UNION {[1..n -> DocTokens] : n \in 0..MaxLen}

\* Tokens and documents of the concurrent invocations
ConcTokens == { [text |-> <<"a">>, pos_ |-> "NOUN", ent_type_ |-> ""],
                [text |-> <<"b">>, pos_ |-> "PUNCT", ent_type_ |-> ""],
                [text |-> <<"b">>, pos_ |-> "PUNCT", ent_type_ |-> "GPE"],
                [text |-> <<"a">>, pos_ |-> "X", ent_type_ |-> "GPE"] }
ConcDocs == UNION {[1..n -> ConcTokens] : n \in 0..MaxConcLen}

Procs == {1, 2}

----------------------------------------------------------------------------
(* The rule table, lines 46-52: a dict, iterated in insertion order *)

DelayGroupsTable ==
    << [group |-> "named_entity", tags |-> {}],
       [group |-> "content",
        tags |-> {"NOUN", "PROPN", "VERB", "ADJ", "INTJ"}],
       [group |-> "function",
        tags |-> {"DET", "PRON", "ADP", "AUX", "CCONJ", "SCONJ"}],
       [group |-> "modifier", tags |-> {"ADV", "NUM"}],
       [group |-> "punctuation", tags |-> {"PUNCT", "SPACE", "SYM"}] >>

\* groups[key] of the dict
Lookup(groups, key) ==
    LET k == CHOOSE n \in 1..Len(groups) : groups[n].group = key
    IN  groups[k].tags

\* for group, tags in groups.items(): if pos_tag in tags: return group
\* return 'other'                                        (lines 60-63)
RECURSIVE first_match(_, _, _)
first_match(groups, pos_tag, n) ==
    IF n > Len(groups) THEN "other"
    ELSE IF pos_tag \in groups[n].tags THEN groups[n].group
    ELSE first_match(groups, pos_tag, n + 1)

\* Mutant: the part-of-speech lookup is made before the entity check
get_group_pos_first(groups, token) ==
    LET g == first_match(groups, token.pos_, 1)
    IN  IF g # "other" THEN g
        ELSE IF token.ent_type_ # "" THEN "named_entity" ELSE "other"

\* Mutant: an unknown tag falls back to 'content'
get_group_fallback(groups, token) ==
    IF token.ent_type_ # "" THEN "named_entity"
    ELSE LET g == first_match(groups, token.pos_, 1)
         IN  IF g = "other" THEN "content" ELSE g

\* get_group, lines 54-63
get_group(groups, token) ==
    IF token.ent_type_ # "" THEN "named_entity"
    ELSE first_match(groups, token.pos_, 1)

----------------------------------------------------------------------------
(* combine_with_punctuation, lines 65-90.  Its locals are the record       *)
(* [combined_tokens, combined_groups, current_token, current_group].       *)

\* lines 67-70
InitialLocals ==
    [combined_tokens |-> <<>>, combined_groups |-> <<>>,
     current_token |-> <<>>, current_group |-> None]

\* Mutant: a punctuation token appended to an open group reclassifies it
punct_branch_reclassify(groups, L, token) ==
    IF L.current_token # <<>>
    THEN [L EXCEPT !.current_token = L.current_token \o token.text,
                   !.current_group = get_group(groups, token)]
    ELSE [L EXCEPT !.current_token = token.text,
                   !.current_group = get_group(groups, token)]

\* Mutant: a punctuation token that starts a group leaves its category unset
punct_branch_no_group(groups, L, token) ==
    IF L.current_token # <<>>
    THEN [L EXCEPT !.current_token = L.current_token \o token.text]
    ELSE [L EXCEPT !.current_token = token.text]

\* lines 74-78: the token's tag is a punctuation tag
punct_branch(groups, L, token) ==
    IF L.current_token # <<>>
    THEN [L EXCEPT !.current_token = L.current_token \o token.text]
    ELSE [L EXCEPT !.current_token = token.text,
                   !.current_group = get_group(groups, token)]

\* Mutant: the pending group is overwritten without being flushed
other_branch_no_flush(groups, L, token) ==
    [L EXCEPT !.current_token = token.text,
              !.current_group = get_group(groups, token)]

\* lines 80-84: any other tag
other_branch(groups, L, token) ==
    LET F == IF L.current_token # <<>>
             THEN [L EXCEPT
                     !.combined_tokens = Append(L.combined_tokens,
                                                L.current_token),
                     !.combined_groups = Append(L.combined_groups,
                                                L.current_group)]
             ELSE L
    IN  [F EXCEPT !.current_token = token.text,
                  !.current_group = get_group(groups, token)]

\* Mutant: the final flush appends the text but not its category
last_flush_tokens_only(L) ==
    [L EXCEPT !.combined_tokens = Append(L.combined_tokens, L.current_token)]

\* lines 87-88
last_flush(L) ==
    [L EXCEPT !.combined_tokens = Append(L.combined_tokens, L.current_token),
              !.combined_groups = Append(L.combined_groups, L.current_group)]

\* Mutant: the last-token test is off by one and never fires
loop_body_no_last(groups, L, token, idx, n) ==
    LET B == IF token.pos_ \in Lookup(groups, "punctuation")
             THEN punct_branch(groups, L, token)
             ELSE other_branch(groups, L, token)
    IN  IF idx = n THEN last_flush(B) ELSE B

\* lines 73-88: one iteration, idx is enumerate's index, n is len(doc)
loop_body(groups, L, token, idx, n) ==
    LET B == IF token.pos_ \in Lookup(groups, "punctuation")
             THEN punct_branch(groups, L, token)
             ELSE other_branch(groups, L, token)
    IN  IF idx = n - 1 THEN last_flush(B) ELSE B

\* The loop of lines 72-88 run from idx to the end of d
RECURSIVE run_loop(_, _, _, _)
run_loop(groups, L, d, idx) ==
    IF idx >= Len(d) THEN L
    ELSE run_loop(groups, loop_body(groups, L, d[idx + 1], idx, Len(d)),
                  d, idx + 1)

\* combine_with_punctuation(doc) run alone: the pair it returns (line 90)
combine_with_punctuation(groups, d) ==
    LET L == run_loop(groups, InitialLocals, d, 0)
    IN  <<L.combined_tokens, L.combined_groups>>

----------------------------------------------------------------------------
(* The /pos-tag request, lines 97-139 *)

\* JSON values of the 'text' field; val is the string's characters
StrValue(s) == [type |-> "str", val |-> s]
NoValue == [type |-> "unset", val |-> <<>>]
RequestStrings == {<<>>, <<" ">>, <<" ", " ">>, <<" ", "a">>}
TextValues == {StrValue(s) : s \in RequestStrings}
              \cup {[type |-> t, val |-> <<>>] : t \in {"number", "null", "list"}}

\* Request bodies: none (get_json raises), JSON null, {}, an object without
\* 'text', an object with 'text'
NoBody == [kind |-> "unset", text |-> NoValue]
Bodies == {[kind |-> k, text |-> NoValue] :
              k \in {"missing", "null", "empty", "notext"}}
          \cup {[kind |-> "text", text |-> v] : v \in TextValues}

Whitespace == {" "}

\* str.strip()
RECURSIVE lstrip(_)
lstrip(s) ==
    IF s # <<>> /\ Head(s) \in Whitespace THEN lstrip(Tail(s)) ELSE s
RECURSIVE rstrip(_)
rstrip(s) ==
    IF s # <<>> /\ s[Len(s)] \in Whitespace
    THEN rstrip(SubSeq(s, 1, Len(s) - 1)) ELSE s
strip(s) == rstrip(lstrip(s))

\* jsonify({'error': msg}), status
ErrorResponse(msg, status) == [status |-> status, body |-> [error |-> msg]]
NoResponse == [status |-> 0, body |-> <<>>]

HandlerIdle(p) ==
    /\ pc = p
    /\ data = NoBody
    /\ text = NoValue
    /\ doc = <<>>
    /\ i = 0
    /\ combined_tokens = <<>>
    /\ combined_groups = <<>>
    /\ current_token = <<>>
    /\ current_group = None
    /\ response = NoResponse
    /\ nlp_calls = 0
    /\ combine_calls = 0
    /\ raised = None

ClassifyIdle ==
    /\ g_token = [text |-> <<"a">>, pos_ |-> "X", ent_type_ |-> ""]
    /\ g_ret = None

ConcIdle == inv = [p \in Procs |-> [doc |-> <<>>, i |-> 0, pc |-> "off",
                                    L |-> InitialLocals]]

Return(r) ==
    /\ response' = r
    /\ pc' = "done"

Raise(where) ==
    /\ raised' = where
    /\ pc' = "except"

\* line 100: data = request.get_json()
GetJson ==
    /\ pc = "get_json"
    /\ \E b \in Bodies :
         IF b.kind = "missing"
         THEN Raise("get_json") /\ UNCHANGED <<data, response>>
         ELSE data' = b /\ pc' = "check_data" /\ UNCHANGED <<raised, response>>
    /\ UNCHANGED <<DELAY_GROUPS, text, doc, i, combined_tokens,
                   combined_groups, current_token, current_group, nlp_calls,
                   combine_calls, g_token, g_ret, inv>>

\* lines 102-104: if not data
CheckData ==
    /\ pc = "check_data"
    /\ IF data.kind \in {"null", "empty"}
       THEN Return(ErrorResponse("No JSON data provided", 400))
       ELSE pc' = "check_field" /\ UNCHANGED response
    /\ UNCHANGED <<DELAY_GROUPS, data, text, doc, i, combined_tokens,
                   combined_groups, current_token, current_group, nlp_calls,
                   combine_calls, raised, g_token, g_ret, inv>>

\* lines 106-108: if 'text' not in data
CheckField ==
    /\ pc = "check_field"
    /\ IF data.kind # "text"
       THEN Return(ErrorResponse("Please provide text in the request body",
                                 400))
       ELSE pc' = "check_blank" /\ UNCHANGED response
    /\ UNCHANGED <<DELAY_GROUPS, data, text, doc, i, combined_tokens,
                   combined_groups, current_token, current_group, nlp_calls,
                   combine_calls, raised, g_token, g_ret, inv>>

\* Mutant: the blank test is made on the text itself, not on text.strip()
CheckBlankNoStrip ==
    /\ pc = "check_blank"
    /\ text' = data.text
    /\ IF data.text.type # "str"
       THEN Raise("strip") /\ UNCHANGED response
       ELSE IF data.text.val = <<>>
       THEN Return(ErrorResponse("Text cannot be empty", 400))
            /\ UNCHANGED raised
       ELSE pc' = "nlp" /\ UNCHANGED <<raised, response>>
    /\ UNCHANGED <<DELAY_GROUPS, data, doc, i, combined_tokens,
                   combined_groups, current_token, current_group, nlp_calls,
                   combine_calls, g_token, g_ret, inv>>

\* lines 110-114: text = data['text']; if not text.strip()
\* (a value that is not a str has no strip: AttributeError)
CheckBlank ==
    /\ pc = "check_blank"
    /\ text' = data.text
    /\ IF data.text.type # "str"
       THEN Raise("strip") /\ UNCHANGED response
       ELSE IF strip(data.text.val) = <<>>
       THEN Return(ErrorResponse("Text cannot be empty", 400))
            /\ UNCHANGED raised
       ELSE pc' = "nlp" /\ UNCHANGED <<raised, response>>
    /\ UNCHANGED <<DELAY_GROUPS, data, doc, i, combined_tokens,
                   combined_groups, current_token, current_group, nlp_calls,
                   combine_calls, g_token, g_ret, inv>>

\* line 117: doc = nlp(text); the provider returns a document or raises
CallNlp ==
    /\ pc = "nlp"
    /\ nlp_calls' = nlp_calls + 1
    /\ \/ \E d \in Docs : doc' = d /\ pc' = "combine" /\ UNCHANGED raised
       \/ Raise("nlp") /\ UNCHANGED doc
    /\ UNCHANGED <<DELAY_GROUPS, data, text, i, combined_tokens,
                   combined_groups, current_token, current_group, response,
                   combine_calls, g_token, g_ret, inv>>

\* line 119, lines 67-70: combine_with_punctuation(doc) is entered
CallCombine ==
    /\ pc = "combine"
    /\ combine_calls' = combine_calls + 1
    /\ combined_tokens' = InitialLocals.combined_tokens
    /\ combined_groups' = InitialLocals.combined_groups
    /\ current_token' = InitialLocals.current_token
    /\ current_group' = InitialLocals.current_group
    /\ i' = 0
    /\ pc' = IF Len(doc) = 0 THEN "respond" ELSE "loop"
    /\ UNCHANGED <<DELAY_GROUPS, data, text, doc, response, nlp_calls,
                   raised, g_token, g_ret, inv>>

Locals ==
    [combined_tokens |-> combined_tokens, combined_groups |-> combined_groups,
     current_token |-> current_token, current_group |-> current_group]

\* lines 72-88: one iteration of the loop over doc
LoopIteration ==
    /\ pc = "loop"
    /\ i < Len(doc)
    /\ LET L == loop_body(DELAY_GROUPS, Locals, doc[i + 1], i, Len(doc))
       IN  /\ combined_tokens' = L.combined_tokens
           /\ combined_groups' = L.combined_groups
           /\ current_token' = L.current_token
           /\ current_group' = L.current_group
    /\ i' = i + 1
    /\ pc' = IF i + 1 = Len(doc) THEN "respond" ELSE "loop"
    /\ UNCHANGED <<DELAY_GROUPS, data, text, doc, response, nlp_calls,
                   combine_calls, raised, g_token, g_ret, inv>>

\* lines 90, 119, 128-135: the pair is returned and serialised
Respond ==
    /\ pc = "respond"
    /\ Return([status |-> 200,
               body |-> [tokens |-> combined_tokens,
                         groups |-> combined_groups]])
    /\ UNCHANGED <<DELAY_GROUPS, data, text, doc, i, combined_tokens,
                   combined_groups, current_token, current_group, nlp_calls,
                   combine_calls, raised, g_token, g_ret, inv>>

\* Mutant: a failed annotation is tried again
HandleExceptionRetry ==
    /\ pc = "except"
    /\ IF raised = "nlp" /\ nlp_calls < 2
       THEN pc' = "nlp" /\ UNCHANGED response
       ELSE Return(ErrorResponse("Internal server error", 500))
    /\ UNCHANGED <<DELAY_GROUPS, data, text, doc, i, combined_tokens,
                   combined_groups, current_token, current_group, nlp_calls,
                   combine_calls, raised, g_token, g_ret, inv>>

\* lines 137-139: except Exception
HandleException ==
    /\ pc = "except"
    /\ Return(ErrorResponse("Internal server error", 500))
    /\ UNCHANGED <<DELAY_GROUPS, data, text, doc, i, combined_tokens,
                   combined_groups, current_token, current_group, nlp_calls,
                   combine_calls, raised, g_token, g_ret, inv>>

Init ==
    /\ DELAY_GROUPS = DelayGroupsTable
    /\ HandlerIdle("get_json")
    /\ ClassifyIdle
    /\ ConcIdle

Next ==
    \/ GetJson
    \/ CheckData
    \/ CheckField
    \/ CheckBlank
    \/ CallNlp
    \/ CallCombine
    \/ LoopIteration
    \/ Respond
    \/ HandleException

Spec == Init /\ [][Next]_vars

----------------------------------------------------------------------------
(* Direct calls of get_group on one token *)

\* get_group(token) is called and returns
GetGroupCall ==
    /\ pc = "off"
    /\ g_ret = None
    /\ g_ret' = get_group(DELAY_GROUPS, g_token)
    /\ UNCHANGED <<DELAY_GROUPS, handlerVars, g_token, inv>>

InitClassify ==
    /\ DELAY_GROUPS = DelayGroupsTable
    /\ HandlerIdle("off")
    /\ g_token \in ClassifyTokens
    /\ g_ret = None
    /\ ConcIdle

NextClassify == GetGroupCall

SpecClassify == InitClassify /\ [][NextClassify]_vars

----------------------------------------------------------------------------
(* Two invocations of combine_with_punctuation whose loop iterations       *)
(* interleave, as in two request threads of the server.                    *)

\* Mutant: the accumulator is kept in module-level globals
ConcStepSharedAccumulator(p) ==
    /\ pc = "off"
    /\ inv[p].pc = "loop"
    /\ LET c == inv[p]
           L == loop_body(DELAY_GROUPS,
                          [c.L EXCEPT !.current_token = current_token,
                                      !.current_group = current_group],
                          c.doc[c.i + 1], c.i, Len(c.doc))
       IN  /\ inv' = [inv EXCEPT ![p] =
                        [c EXCEPT !.L = L, !.i = c.i + 1,
                                  !.pc = IF c.i + 1 = Len(c.doc)
                                         THEN "returned" ELSE "loop"]]
           /\ current_token' = L.current_token
           /\ current_group' = L.current_group
    /\ UNCHANGED <<DELAY_GROUPS, pc, data, text, doc, i, combined_tokens,
                   combined_groups, response, nlp_calls, combine_calls,
                   raised, classifyVars>>

\* lines 72-90: invocation p runs one iteration of its loop
ConcStep(p) ==
    /\ pc = "off"
    /\ inv[p].pc = "loop"
    /\ LET c == inv[p]
           L == loop_body(DELAY_GROUPS, c.L, c.doc[c.i + 1], c.i, Len(c.doc))
       IN  inv' = [inv EXCEPT ![p] =
                     [c EXCEPT !.L = L, !.i = c.i + 1,
                               !.pc = IF c.i + 1 = Len(c.doc)
                                      THEN "returned" ELSE "loop"]]
    /\ UNCHANGED <<DELAY_GROUPS, handlerVars, classifyVars>>

\* lines 67-72: an invocation entered with document d
Entered(d) ==
    [doc |-> d, i |-> 0, pc |-> IF Len(d) = 0 THEN "returned" ELSE "loop",
     L |-> InitialLocals]

InitConc ==
    /\ DELAY_GROUPS = DelayGroupsTable
    /\ HandlerIdle("off")
    /\ ClassifyIdle
    /\ inv \in [Procs -> {Entered(d) : d \in ConcDocs}]

NextConc == \E p \in Procs : ConcStep(p)

SpecConc == InitConc /\ [][NextConc]_vars

----------------------------------------------------------------------------
(* Vocabulary of the properties, stated independently of the model above *)

PunctuationTags == {"PUNCT", "SPACE", "SYM"}
Labels == {"named_entity", "content", "function", "modifier", "punctuation",
           "other"}

\* Concatenation of a sequence of strings
RECURSIVE Flat(_)
Flat(ss) == IF ss = <<>> THEN <<>> ELSE Head(ss) \o Flat(Tail(ss))

\* Concatenation of the texts of tokens a..b of document d
TextsOf(d, a, b) == Flat([k \in 1..(b - a + 1) |-> d[a + k - 1].text])

\* Length of the maximal leading run of punctuation-tagged tokens of d
LeadingRun(d) ==
    CHOOSE r \in 0..Len(d) :
        /\ \A k \in 1..r : d[k].pos_ \in PunctuationTags
        /\ r < Len(d) => d[r + 1].pos_ \notin PunctuationTags

\* The category the rule table is documented to give a tag
TagCategory(tag) ==
    IF tag \in {"NOUN", "PROPN", "VERB", "ADJ", "INTJ"} THEN "content"
    ELSE IF tag \in {"DET", "PRON", "ADP", "AUX", "CCONJ", "SCONJ"}
         THEN "function"
    ELSE IF tag \in {"ADV", "NUM"} THEN "modifier"
    ELSE IF tag \in PunctuationTags THEN "punctuation"
    ELSE "other"

\* The reference partition of a document into groups
GroupStarts(d) == {k \in 1..Len(d) : k = 1 \/ d[k].pos_ \notin PunctuationTags}
NthStart(d, j) ==
    CHOOSE k \in GroupStarts(d) :
        Cardinality({m \in GroupStarts(d) : m < k}) = j - 1
GroupEnd(d, j) ==
    IF j = Cardinality(GroupStarts(d)) THEN Len(d) ELSE NthStart(d, j + 1) - 1
RefTokens(d) ==
    [j \in 1..Cardinality(GroupStarts(d)) |->
        TextsOf(d, NthStart(d, j), GroupEnd(d, j))]
RefGroups(d) ==
    [j \in 1..Cardinality(GroupStarts(d)) |->
        get_group(DelayGroupsTable, d[NthStart(d, j)])]

IsBlank(s) == \A k \in 1..Len(s) : s[k] = " "

----------------------------------------------------------------------------
(* C1: at every point of the scan the emitted texts followed by the        *)
(* accumulator concatenate to the texts of the tokens consumed so far, and *)
(* the texts returned by combine_with_punctuation concatenate to the       *)
(* concatenation of all input token texts.                                 *)
C1_RoundTrip ==
    /\ pc = "loop" =>
         Flat(combined_tokens) \o current_token = TextsOf(doc, 1, i)
    /\ pc = "respond" => Flat(combined_tokens) = TextsOf(doc, 1, Len(doc))

C1_Witness ==
    /\ pc = "respond"
    /\ Len(doc) = 3
    /\ Len(combined_tokens) = 2
    /\ Flat(combined_tokens) = <<"a", "b", "a">>

(* C2: get_group returns 'named_entity' for every token flagged as a named *)
(* entity, whatever its part-of-speech tag.                                *)
C2_EntityWins ==
    (g_ret # None /\ g_token.ent_type_ # "") => g_ret = "named_entity"

C2_Witness ==
    /\ g_ret = "named_entity"
    /\ g_token.pos_ = "PUNCT"
    /\ g_token.ent_type_ = "GPE"

(* C3: for a token that is not a named entity get_group returns the        *)
(* category whose tag-set holds its tag, 'other' for a tag in no set, and  *)
(* never 'named_entity'.                                                   *)
C3_TagCategory ==
    (g_ret # None /\ g_token.ent_type_ = "") =>
        /\ g_ret = TagCategory(g_token.pos_)
        /\ g_ret # "named_entity"

C3_Witness ==
    /\ g_ret = "other"
    /\ g_token.pos_ = "PART"
    /\ g_token.ent_type_ = ""

(* C4: an iteration on a punctuation-tagged token that finds text in the   *)
(* accumulator appends the token's text to it and keeps its category; it   *)
(* adds nothing to the output, except that on the last token the final     *)
(* flush emits the accumulated group with that category.                   *)
C4_PunctAppends ==
    [][ ( /\ pc = "loop"
          /\ i < Len(doc)
          /\ doc[i + 1].pos_ \in PunctuationTags
          /\ current_token # <<>> )
        =>
        ( /\ current_token' = current_token \o doc[i + 1].text
          /\ current_group' = current_group
          /\ IF i + 1 = Len(doc)
             THEN /\ combined_tokens' = Append(combined_tokens, current_token')
                  /\ combined_groups' = Append(combined_groups, current_group)
             ELSE /\ combined_tokens' = combined_tokens
                  /\ combined_groups' = combined_groups ) ]_vars

C4_Witness ==
    /\ pc = "loop"
    /\ i = 2
    /\ doc[1].pos_ = "NOUN" /\ doc[1].ent_type_ = "" /\ doc[1].text = <<"a">>
    /\ doc[2].pos_ = "PUNCT" /\ doc[2].ent_type_ = "GPE"
    /\ doc[2].text = <<"b">>
    /\ current_token = <<"a", "b">>
    /\ current_group = "content"
    /\ combined_tokens = <<>>

C6_Lockstep ==
    /\ pc \in {"loop", "respond"} =>
         /\ Len(combined_tokens) = Len(combined_groups)
         /\ Len(combined_tokens) <= i
    /\ pc = "respond" =>
         /\ Len(combined_tokens) <= Len(doc)
         /\ doc = <<>> => combined_tokens = <<>> /\ combined_groups = <<>>
    /\ (pc = "done" /\ response.status = 200) =>
         Len(response.body.tokens) = Len(response.body.groups)

C6_Witness ==
    /\ pc = "done"
    /\ response.status = 200
    /\ doc = <<>>
    /\ response.body.tokens = <<>>
    /\ response.body.groups = <<>>

(* C7: when nlp(text) raises, the annotation step has been called exactly  *)
(* once, the merger is never run, and the request ends with the error      *)
(* response, which carries neither 'tokens' nor 'groups'.                  *)
C7_AnnotationFailure ==
    raised = "nlp" =>
        /\ nlp_calls = 1
        /\ combine_calls = 0
        /\ pc \in {"except", "done"}
        /\ pc = "done" =>
             /\ response.status = 500
             /\ DOMAIN response.body = {"error"}

C7_Witness ==
    /\ raised = "nlp"
    /\ pc = "done"
    /\ response.status = 500
    /\ nlp_calls = 1

(* C8: a request with no body, an empty body, no 'text' field, a blank     *)
(* text or a text that is not a string is answered with an error and never *)
(* reaches nlp or combine_with_punctuation; these run only on a string     *)
(* that has a non-blank character.                                         *)
C8_InvalidRequest ==
    \/ raised = "get_json"
    \/ data.kind \in {"null", "empty", "notext"}
    \/ data.kind = "text" /\ data.text.type # "str"
    \/ data.kind = "text" /\ data.text.type = "str" /\ IsBlank(data.text.val)

C8_ValidationFirst ==
    /\ C8_InvalidRequest =>
         /\ nlp_calls = 0 /\ combine_calls = 0
         /\ pc \notin {"nlp", "combine", "loop", "respond"}
         /\ pc = "done" =>
              /\ response.status \in {400, 500}
              /\ DOMAIN response.body = {"error"}
    /\ (pc \in {"nlp", "combine", "loop", "respond"}
        \/ nlp_calls > 0 \/ combine_calls > 0) =>
         /\ text.type = "str"
         /\ ~IsBlank(text.val)

C8_Witness ==
    /\ pc = "done"
    /\ text = StrValue(<<" ", " ">>)
    /\ response.status = 400
    /\ nlp_calls = 0

(* C9: whatever the interleaving of two invocations, the rule table keeps  *)
(* its value and each invocation returns what combine_with_punctuation     *)
(* returns on its document when run alone.                                 *)
C9_Independent ==
    /\ DELAY_GROUPS = DelayGroupsTable
    /\ \A p \in Procs :
         inv[p].pc = "returned" =>
           <<inv[p].L.combined_tokens, inv[p].L.combined_groups>>
             = combine_with_punctuation(DelayGroupsTable, inv[p].doc)

C9_Witness ==
    /\ inv[1].pc = "returned"
    /\ inv[1].L.combined_tokens = << <<"a", "b">> >>
    /\ inv[1].L.combined_groups = <<"content">>
    /\ inv[2].pc = "loop"
    /\ inv[2].i = 1
    /\ inv[2].L.current_group = "named_entity"

(* C10: for a document whose texts are all non-empty the output is the     *)
(* reference partition: one group per non-punctuation token, plus one for  *)
(* a leading punctuation token, each the concatenation of its texts with   *)
(* the category of its first token; every category is one of the six       *)
(* labels, and a group whose first token is no entity is never             *)
(* 'named_entity'.                                                         *)
C10_ReferencePartition ==
    (pc = "respond" /\ \A k \in 1..Len(doc) : doc[k].text # <<>>) =>
        /\ combined_tokens = RefTokens(doc)
        /\ combined_groups = RefGroups(doc)
        /\ Len(combined_tokens) =
             Cardinality({k \in 1..Len(doc) :
                             doc[k].pos_ \notin PunctuationTags})
             + (IF doc # <<>> /\ doc[1].pos_ \in PunctuationTags
                THEN 1 ELSE 0)
        /\ \A j \in 1..Len(combined_groups) :
             /\ combined_groups[j] \in Labels
             /\ doc[NthStart(doc, j)].ent_type_ = ""
                  => combined_groups[j] # "named_entity"

C10_Witness ==
    /\ pc = "respond"
    /\ Len(doc) = 3
    /\ doc[1].pos_ = "DET" /\ doc[1].ent_type_ = "" /\ doc[1].text = <<"a">>
    /\ doc[2].pos_ = "PUNCT" /\ doc[2].ent_type_ = "GPE"
    /\ doc[2].text = <<"b">>
    /\ doc[3].pos_ = "X" /\ doc[3].ent_type_ = "" /\ doc[3].text = <<"a">>
    /\ combined_tokens = << <<"a", "b">>, <<"a">> >>
    /\ combined_groups = <<"function", "other">>

====
